---- MODULE Spec2Model ----
(***************************************************************************)
(* Polymarket paper trader (src/polymarket_trader.py): the trade journal,  *)
(* the settler, the fetcher, the evaluator and the executor, as one        *)
(* trading cycle after another driven by an external scheduler.            *)
(*                                                                         *)
(* Units.  Prices are in cents of a dollar (0.40 is 40), sizes in dollars, *)
(* so a P&L is in cents (6.50 is 650).  The arithmetic is exact; the       *)
(* rounding of the code's binary floats is not modelled.                   *)
(* Time is in seconds since the epoch and advances a window at a time.     *)
(*                                                                         *)
(* A slug "btc-updown-15m-1771616700" is the sequence of its parts between *)
(* the dashes, <<"btc", "updown", "15m", 1771616700>>.  A reason string is *)
(* the sequence of its leading words.  Pass-through fields of the API      *)
(* answer that no decision reads (question, volume, liquidity, end date)   *)
(* are left out of the snapshot and of the trade, and so is the trade's    *)
(* creation timestamp, which nothing reads.                                *)
(***************************************************************************)
EXTENDS Integers, Sequences, FiniteSets, TLC

\* ---------------------------------------------------------------- bounds
\* The clock stops after MaxTicks windows; the API offers no signalling
\* market once MaxTrades trades have been opened.
MaxTicks == 3
MaxTrades == 2

\* ------------------------------------------------------- program constants
max_position_size == 10
buy_threshold == 40
sell_threshold == 60
circuit_breaker == 3
Window == 900
PriceScale == 100

TickStep == Window

Assets == <<"btc", "eth">>

MarketName(asset) == IF asset = "btc" THEN "Bitcoin" ELSE "Ethereum"

SlugPrefix(asset) == IF asset = "btc" THEN <<"btc", "updown", "15m">>
                                      ELSE <<"eth", "updown", "15m">>

None == [none |-> TRUE]

NoFile == [missing |-> TRUE]

\* ------------------------------------------------------------ journal file
EmptyJournal == [trades |-> <<>>, consecutive_losses |-> 0, total_pnl |-> 0]

load_trades(f) == IF f # NoFile THEN f ELSE EmptyJournal

FileReads(f) == IF f # NoFile THEN 1 ELSE 0

\* ----------------------------------------------------------------- fetcher
\* What the API can answer for one slug: a transport or parse error, a market
\* that is missing, inactive, closed or has fewer than two prices, or an
\* active market with its two labels and two prices.
UpDown == <<"Up", "Down">>
DownUp == <<"Down", "Up">>

Payloads == { [outcomes |-> UpDown, prices |-> <<35, 65>>],
              [outcomes |-> UpDown, prices |-> <<40, 60>>],
              [outcomes |-> UpDown, prices |-> <<60, 40>>],
              [outcomes |-> DownUp, prices |-> <<35, 65>>] }

Responses == { [kind |-> "error"], [kind |-> "unavailable"] }
             \cup { [kind |-> "ok", data |-> p] : p \in Payloads }

RoundedTime(t) == (t \div Window) * Window

Offsets == <<0, Window>>

Snapshot(asset, timestamp, data) ==
    [ asset      |-> asset,
      name       |-> MarketName(asset),
      slug       |-> Append(SlugPrefix(asset), timestamp),
      up_price   |-> IF data.outcomes[1] = "Up" THEN data.prices[1] ELSE data.prices[2],
      down_price |-> IF data.outcomes[2] = "Down" THEN data.prices[2] ELSE data.prices[1],
      timestamp  |-> timestamp ]

\* A failed attempt that propagates instead of being caught.
OnFetchError_raise(rest) == [rest EXCEPT !.raised = TRUE]

\* The value the except clause gives a failed attempt: logged, then the loop
\* continues with the next offset.
OnFetchError(rest) == [rest EXCEPT !.errors = @ + 1]

RECURSIVE TryOffsets(_, _, _, _)
TryOffsets(asset, t, resp, k) ==
    IF k > Len(Offsets)
    THEN [raised |-> FALSE, value |-> None, errors |-> 0]
    ELSE IF resp[k].kind = "ok"
         THEN [raised |-> FALSE,
               value  |-> Snapshot(asset, RoundedTime(t) + Offsets[k], resp[k].data),
               errors |-> 0]
         ELSE IF resp[k].kind = "error"
              THEN OnFetchError(TryOffsets(asset, t, resp, k + 1))
              ELSE TryOffsets(asset, t, resp, k + 1)

get_market_data(asset, t, resp) == TryOffsets(asset, t, resp, 1)

\* --------------------------------------------------------------- evaluator
Contains(reason, word) == \E i \in 1..Len(reason) : reason[i] = word

\* The comparison with the threshold, off by one.
BreakerTripped_strict(j) == j.consecutive_losses > circuit_breaker

BreakerTripped(j) == j.consecutive_losses >= circuit_breaker

\* The buy threshold taken as a BUY.
IsBuySignal_inclusive(up_price) == up_price <= buy_threshold

IsBuySignal(up_price) == up_price < buy_threshold

IsSellSignal(up_price) == up_price > sell_threshold

should_trade(md, j) ==
    IF BreakerTripped(j)
    THEN [signal |-> FALSE, reason |-> <<"circuit_breaker">>]
    ELSE IF IsBuySignal(md.up_price)
         THEN [signal |-> TRUE, reason |-> <<"BUY", "signal:", "Up", "price">>]
         ELSE IF IsSellSignal(md.up_price)
              THEN [signal |-> TRUE, reason |-> <<"SELL", "signal:", "Up", "price">>]
              ELSE [signal |-> FALSE, reason |-> <<"HOLD:", "Up", "price">>]

ChooseAction(reason) == IF Contains(reason, "BUY") THEN "BUY" ELSE "SELL"

\* ---------------------------------------------------------------- executor
NewTrade(act, md) ==
    [ asset      |-> md.asset,
      name       |-> md.name,
      slug       |-> md.slug,
      action     |-> act,
      price      |-> IF act = "BUY" THEN md.up_price ELSE md.down_price,
      size       |-> max_position_size,
      up_price   |-> md.up_price,
      down_price |-> md.down_price,
      status     |-> "open",
      pnl        |-> 0 ]

\* The new trade put at the head of the list.
execute_trade_prepend(act, md, j) == [j EXCEPT !.trades = <<NewTrade(act, md)>> \o @]

execute_trade(act, md, j) == [j EXCEPT !.trades = Append(@, NewTrade(act, md))]

\* ----------------------------------------------------------------- settler
MarketEndTime(trade) == trade.slug[Len(trade.slug)] + Window

\* A market taken as ended at its end time.
Elapsed_inclusive(trade, t) == t >= MarketEndTime(trade)

Elapsed(trade, t) == t > MarketEndTime(trade)

Eligible(trade, t) ==
    /\ trade.status = "open"
    /\ Len(trade.slug) >= 4
    /\ Elapsed(trade, t)

\* resolved_up = True, resolved_down = False: the fixed resolution.
IsWin(trade) == trade.action = "BUY"

WinPnl(trade) == trade.size * (PriceScale - trade.price)

\* The loss taken on the complement of the entry price.
LossPnl_complement(trade) == -(trade.size * (PriceScale - trade.price))

LossPnl(trade) == -(trade.size * trade.price)

ClosePnl(trade) == IF IsWin(trade) THEN WinPnl(trade) ELSE LossPnl(trade)

\* The status left as it was.
CloseStatus_kept == "open"

CloseStatus == "closed"

\* A win that leaves the counter as it is.
LossesAfter_noReset(trade, losses) == IF IsWin(trade) THEN losses ELSE losses + 1

LossesAfter(trade, losses) == IF IsWin(trade) THEN 0 ELSE losses + 1

\* The close that forgets the running total.
CloseTrade_noTotal(j, i) ==
    [ trades |-> [j.trades EXCEPT ![i] =
                    [@ EXCEPT !.status = CloseStatus, !.pnl = ClosePnl(j.trades[i])]],
      consecutive_losses |-> LossesAfter(j.trades[i], j.consecutive_losses),
      total_pnl |-> j.total_pnl ]

\* One iteration of the settler's loop, on the trade at position i.
CloseTrade(j, i) ==
    [ trades |-> [j.trades EXCEPT ![i] =
                    [@ EXCEPT !.status = CloseStatus, !.pnl = ClosePnl(j.trades[i])]],
      consecutive_losses |-> LossesAfter(j.trades[i], j.consecutive_losses),
      total_pnl |-> j.total_pnl + ClosePnl(j.trades[i]) ]

SettleOne(j, i, t) == IF Eligible(j.trades[i], t) THEN CloseTrade(j, i) ELSE j

\* The whole of check_closed_positions as a function of the journal and the
\* time it reads: the journal it leaves and the count it returns.
RECURSIVE SettleFrom(_, _, _, _)
SettleFrom(j, i, t, n) ==
    IF i > Len(j.trades)
    THEN [journal |-> j, closed_count |-> n]
    ELSE SettleFrom(SettleOne(j, i, t), i + 1, t,
                    IF Eligible(j.trades[i], t) THEN n + 1 ELSE n)

check_closed_positions(j, t) == SettleFrom(j, 1, t, 0)

\* ------------------------------------------------------------------- state
VARIABLES
    file,           \* the journal file trades.json, or NoFile
    trades,         \* the journal in the memory of the running cycle
    loaded,         \* the journal as load_trades returned it in this cycle
    now,            \* the clock, time.time()
    pc,             \* where the process is: idle, settle, fetch, no_market, evaluate,
                    \* execute, sleep, summary, aborted
    idx,            \* the settler's position in trades["trades"], from 1
    current_time,   \* the time the settler read when it started
    closed_count,   \* the settler's count of trades closed in this run
    asset_i,        \* the position in CONFIG["markets"] of the asset being checked
    market_data,    \* the snapshot of the last fetch, or None
    fetch_errors,   \* how many attempts of the last fetch ended in the except clause
    trade_signal,   \* the first component of should_trade's last result
    reason,         \* the second component of should_trade's last result
    action,         \* the action handed to execute_trade
    reads,          \* times the journal file was opened for reading in this cycle
    writes,         \* times the journal file was written in this cycle
    opened          \* trades opened since the initial state

vars == << file, trades, loaded, now, pc, idx, current_time, closed_count, asset_i,
           market_data, fetch_errors, trade_signal, reason, action, reads, writes, opened >>

\* The locals of a process that has not started or has exited.
NoLocals ==
    /\ idx = 1
    /\ current_time = 0
    /\ closed_count = 0
    /\ asset_i = 1
    /\ market_data = None
    /\ fetch_errors = 0
    /\ trade_signal = FALSE
    /\ reason = <<>>
    /\ action = ""
    /\ reads = 0
    /\ writes = 0

\* A fresh installation: no journal file yet.
InitFresh ==
    /\ file = NoFile
    /\ trades = EmptyJournal
    /\ loaded = EmptyJournal
    /\ now = 0
    /\ pc = "idle"
    /\ opened = 0
    /\ NoLocals

\* The journal a first cycle at time 0 leaves when both assets signal SELL
\* in the current window.  SeedReached says that a fresh installation
\* reaches this state; starting there as well lets MaxTrades further trades
\* be opened on top of it.
SellQuote == [outcomes |-> DownUp, prices |-> <<35, 65>>]

SeedJournal ==
    execute_trade("SELL", Snapshot("eth", 0, SellQuote),
        execute_trade("SELL", Snapshot("btc", 0, SellQuote), EmptyJournal))

InitSeeded ==
    /\ file = SeedJournal
    /\ trades = SeedJournal
    /\ loaded = EmptyJournal
    /\ now = 0
    /\ pc = "idle"
    /\ opened = 0
    /\ NoLocals

\* The clock moves on between two cycles: a cycle takes seconds, a window is
\* 900 of them.
Tick ==
    /\ pc = "idle"
    /\ now + TickStep <= MaxTicks * TickStep
    /\ now' = now + TickStep
    /\ UNCHANGED << file, trades, loaded, pc, idx, current_time, closed_count, asset_i,
                    market_data, fetch_errors, trade_signal, reason, action, reads,
                    writes, opened >>

\* The scheduler starts the program: load_trades, then the settler reads the
\* clock and starts its loop.
BeginCycle ==
    /\ pc = "idle"
    /\ trades' = load_trades(file)
    /\ loaded' = load_trades(file)
    /\ reads' = FileReads(file)
    /\ current_time' = now
    /\ pc' = "settle"
    /\ UNCHANGED << file, now, idx, closed_count, asset_i, market_data, fetch_errors,
                    trade_signal, reason, action, writes, opened >>

\* One iteration of the loop of check_closed_positions.
SettleStep ==
    /\ pc = "settle"
    /\ idx <= Len(trades.trades)
    /\ trades' = SettleOne(trades, idx, current_time)
    /\ closed_count' = IF Eligible(trades.trades[idx], current_time)
                       THEN closed_count + 1 ELSE closed_count
    /\ idx' = idx + 1
    /\ UNCHANGED << file, loaded, now, pc, current_time, asset_i, market_data,
                    fetch_errors, trade_signal, reason, action, reads, writes, opened >>

\* The settler saving whether or not it closed anything.
SettleReturn_alwaysSave ==
    /\ pc = "settle"
    /\ idx > Len(trades.trades)
    /\ file' = trades
    /\ writes' = writes + 1
    /\ pc' = "fetch"
    /\ UNCHANGED << trades, loaded, now, idx, current_time, closed_count, asset_i,
                    market_data, fetch_errors, trade_signal, reason, action, reads,
                    opened >>

\* The loop is over: save if anything was closed, and go on to the assets.
SettleReturn ==
    /\ pc = "settle"
    /\ idx > Len(trades.trades)
    /\ IF closed_count > 0
       THEN file' = trades /\ writes' = writes + 1
       ELSE UNCHANGED << file, writes >>
    /\ pc' = "fetch"
    /\ UNCHANGED << trades, loaded, now, idx, current_time, closed_count, asset_i,
                    market_data, fetch_errors, trade_signal, reason, action, reads,
                    opened >>

\* The loop over the assets goes on with the next one, or leaves for the
\* summary.  The locals of the iteration that ends are assigned again before
\* they are read, and are cleared here.
NextAsset ==
    /\ IF asset_i < Len(Assets)
       THEN asset_i' = asset_i + 1 /\ pc' = "fetch"
       ELSE asset_i' = asset_i /\ pc' = "summary"
    /\ market_data' = None
    /\ fetch_errors' = 0
    /\ trade_signal' = FALSE
    /\ reason' = <<>>
    /\ action' = ""

\* The answers the API may give: any, until MaxTrades trades have been
\* opened, and from then on only those on which no trade is opened.
Offered(asset, j) ==
    IF opened < MaxTrades
    THEN Responses
    ELSE { r \in Responses :
             r.kind = "ok" => ~should_trade(Snapshot(asset, 0, r.data), j).signal }

\* get_market_data for the current asset, and the caller's test of its result.
Fetch ==
    /\ pc = "fetch"
    /\ \E resp \in [1..Len(Offsets) -> Offered(Assets[asset_i], trades)] :
         LET r == get_market_data(Assets[asset_i], now, resp) IN
           /\ market_data' = r.value
           /\ fetch_errors' = r.errors
           /\ pc' = IF r.raised THEN "aborted"
                    ELSE IF r.value = None THEN "no_market" ELSE "evaluate"
    /\ UNCHANGED << file, trades, loaded, now, idx, current_time, closed_count, asset_i,
                    trade_signal, reason, action, reads, writes, opened >>

\* "No active market found" is logged and the loop continues.
NoMarket ==
    /\ pc = "no_market"
    /\ NextAsset
    /\ UNCHANGED << file, trades, loaded, now, idx, current_time, closed_count,
                    reads, writes, opened >>

\* should_trade on the snapshot, and the caller's branch on the signal.
Evaluate ==
    /\ pc = "evaluate"
    /\ LET d == should_trade(market_data, trades) IN
         /\ trade_signal' = d.signal
         /\ reason' = d.reason
         /\ IF d.signal
            THEN action' = ChooseAction(d.reason) /\ pc' = "execute"
            ELSE action' = action /\ pc' = "sleep"
    /\ UNCHANGED << file, trades, loaded, now, idx, current_time, closed_count, asset_i,
                    market_data, fetch_errors, reads, writes, opened >>

\* execute_trade: append the open trade and save the journal.
Execute ==
    /\ pc = "execute"
    /\ trades' = execute_trade(action, market_data, trades)
    /\ file' = trades'
    /\ writes' = writes + 1
    /\ opened' = opened + 1
    /\ NextAsset
    /\ UNCHANGED << loaded, now, idx, current_time, closed_count, reads >>

\* No signal: the reason is logged and the loop continues.
Sleep ==
    /\ pc = "sleep"
    /\ NextAsset
    /\ UNCHANGED << file, trades, loaded, now, idx, current_time, closed_count,
                    reads, writes, opened >>

\* The summary is logged and the process exits; its locals are gone.
Summary ==
    /\ pc = "summary"
    /\ pc' = "idle"
    /\ loaded' = EmptyJournal
    /\ idx' = 1
    /\ current_time' = 0
    /\ closed_count' = 0
    /\ asset_i' = 1
    /\ reads' = 0
    /\ writes' = 0
    /\ UNCHANGED << file, trades, now, opened, market_data, fetch_errors,
                    trade_signal, reason, action >>

Next ==
    \/ Tick
    \/ BeginCycle
    \/ SettleStep
    \/ SettleReturn
    \/ Fetch
    \/ NoMarket
    \/ Evaluate
    \/ Execute
    \/ Sleep
    \/ Summary

\* A fresh installation, and one that goes on from the seeded journal.
Spec == InitFresh /\ [][Next]_vars

SpecSeeded == InitSeeded /\ [][Next]_vars

\* The seeded journal is on the disk of an idle fresh installation.
SeedReached == pc = "idle" /\ file = SeedJournal /\ now = 0

TypeOK ==
    /\ pc \in {"idle", "settle", "fetch", "no_market", "evaluate", "execute", "sleep",
               "summary", "aborted"}
    /\ trades.consecutive_losses \in Nat
    /\ asset_i \in 1..Len(Assets)
    /\ now \in 0..(MaxTicks * TickStep)
    /\ opened \in 0..MaxTrades

\* ------------------------------------------------------ vocabulary of claims
TradeList == trades.trades

NTrades == Len(trades.trades)

\* The journals that exist in a state: the one in memory and the one on disk.
Journals == {trades} \cup (IF file = NoFile THEN {} ELSE {file})

IsOpen(tr) == tr.status = "open"

IsClosed(tr) == tr.status = "closed"

\* The end time of a trade's market, as the specification defines it.
EndTime(tr) == tr.slug[Len(tr.slug)] + 900

RECURSIVE SumClosedPnl(_, _)
SumClosedPnl(ts, n) ==
    IF n = 0 THEN 0
    ELSE SumClosedPnl(ts, n - 1) + (IF IsClosed(ts[n]) THEN ts[n].pnl ELSE 0)

\* This step is an iteration of the settler that closes the trade at idx.
ClosingStep ==
    /\ pc = "settle"
    /\ idx <= NTrades
    /\ IsOpen(TradeList[idx])
    /\ IsClosed(trades'.trades[idx])

SettlerDone == pc \in {"fetch", "no_market", "evaluate", "execute", "sleep", "summary"}

Times == { k * TickStep : k \in 0..(MaxTicks + 2) }

\* ------------------------------------------------------------------- C1
\* C1: when the consecutive-loss counter is 3 or more at the moment an asset
\* is evaluated, should_trade says no trade whatever the up-price and nothing
\* is appended to the journal or written; no trade is ever executed with the
\* counter at 3 or more; and the counter in memory leaves the range 3.. only
\* by the settler closing a winning trade, which sets it to 0, the counter on
\* disk only by the save of a settler run that closed a winning trade.
BreakerStep ==
    /\ (pc = "evaluate" /\ trades.consecutive_losses >= 3)
          => /\ pc' = "sleep"
             /\ ~trade_signal'
             /\ trades' = trades
             /\ file' = file
    /\ pc = "execute" => trades.consecutive_losses < 3
    /\ (trades.consecutive_losses >= 3 /\ trades'.consecutive_losses < 3)
          => /\ ClosingStep
             /\ TradeList[idx].action = "BUY"
             /\ trades'.consecutive_losses = 0
    /\ (file # NoFile /\ file.consecutive_losses >= 3 /\ file'.consecutive_losses < 3)
          => /\ file' = trades
             /\ \E i \in 1..Len(file.trades) :
                   /\ IsOpen(file.trades[i])
                   /\ IsClosed(TradeList[i])
                   /\ TradeList[i].action = "BUY"

CircuitBreakerHolds == [][BreakerStep]_vars

\* The breaker has just refused a price that is a BUY signal.
BreakerRefusedWitness ==
    /\ pc = "sleep"
    /\ reason = <<"circuit_breaker">>
    /\ trades.consecutive_losses >= 3
    /\ market_data.up_price < 40

\* A winning close has reset the counter of a tripped breaker.
BreakerResetReached ==
    /\ pc = "settle"
    /\ trades.consecutive_losses = 0
    /\ file # NoFile
    /\ file.consecutive_losses >= 3

\* ------------------------------------------------------------------- C2
\* C2: from the empty journal on, in memory and on disk, total_pnl is the sum
\* of the pnl of the closed trades, and every open trade has pnl 0.
TotalPnlIsSumOfClosed ==
    \A j \in Journals :
        /\ j.total_pnl = SumClosedPnl(j.trades, Len(j.trades))
        /\ \A i \in 1..Len(j.trades) : IsOpen(j.trades[i]) => j.trades[i].pnl = 0

TotalPnlWitness ==
    /\ file # NoFile
    /\ file.total_pnl # 0
    /\ \E i, k \in 1..Len(file.trades) :
          IsClosed(file.trades[i]) /\ IsOpen(file.trades[k])

\* ------------------------------------------------------------------- C3
\* C3: the consecutive-loss counter changes only in a settler iteration that
\* closes a trade: to 0 when it closes a win, by exactly +1 when it closes a
\* loss; every such iteration does one of the two; and the counter on disk
\* changes only by a save of the journal in memory.
LossCounterStep ==
    /\ trades'.consecutive_losses # trades.consecutive_losses => ClosingStep
    /\ ClosingStep =>
          IF TradeList[idx].action = "BUY"
          THEN trades'.consecutive_losses = 0
          ELSE trades'.consecutive_losses = trades.consecutive_losses + 1
    /\ file' # file => (file' = trades' /\ pc \in {"settle", "execute"})

LossCounterMoves == [][LossCounterStep]_vars

\* A loss was counted and a later win has reset the counter.
LossCounterWitness ==
    /\ trades.consecutive_losses = 0
    /\ \E i, k \in 1..NTrades :
          /\ IsClosed(TradeList[i]) /\ TradeList[i].action = "SELL"
          /\ IsClosed(TradeList[k]) /\ TradeList[k].action = "BUY"

\* ------------------------------------------------------------------- C4
\* C4: a trade is appended open with pnl 0 by the executor, one at a time;
\* an existing trade changes only in the settler, only from open to closed
\* and only in its status and pnl; a closed trade never changes again; no
\* trade is removed or moved, in memory or on disk.
SameButStatusPnl(a, b) == [b EXCEPT !.status = a.status, !.pnl = a.pnl] = a

TradeKept(a, b) == a = b \/ (IsOpen(a) /\ IsClosed(b) /\ SameButStatusPnl(a, b))

Grows(old, new) ==
    /\ Len(new) >= Len(old)
    /\ \A i \in 1..Len(old) : TradeKept(old[i], new[i])

LifecycleStep ==
    /\ Grows(TradeList, trades'.trades)
    /\ Len(trades'.trades) <= NTrades + 1
    /\ Len(trades'.trades) = NTrades + 1
          => /\ pc = "execute"
             /\ IsOpen(trades'.trades[NTrades + 1])
             /\ trades'.trades[NTrades + 1].pnl = 0
    /\ \A i \in 1..NTrades : trades'.trades[i] # TradeList[i] => pc = "settle"
    /\ file # NoFile => (file' # NoFile /\ Grows(file.trades, file'.trades))

TradeLifecycleOneWay == [][LifecycleStep]_vars

\* A trade was closed and a later one appended after it.
LifecycleWitness ==
    \E i, k \in 1..NTrades : i < k /\ IsClosed(TradeList[i]) /\ IsOpen(TradeList[k])

\* ------------------------------------------------------------------- C5
\* C5: for the journal of any state between two assets' steps (idle, in the
\* settler's loop, or about to fetch) and any time t, a first run of the settler
\* closes exactly the open trades whose market has ended before t, and a second
\* run at t closes nothing, returns 0 and leaves the journal as the first left
\* it; and the run a cycle makes is that first run.
SettlementIdempotent ==
    /\ pc \in {"idle", "settle", "fetch"}
          => \A t \in Times :
                LET first  == check_closed_positions(trades, t)
                    second == check_closed_positions(first.journal, t)
                IN  /\ first.closed_count =
                          Cardinality({ i \in 1..NTrades :
                                          IsOpen(TradeList[i]) /\ EndTime(TradeList[i]) < t })
                    /\ second.closed_count = 0
                    /\ second.journal = first.journal
    /\ (pc = "fetch" /\ asset_i = 1)
          => LET run == check_closed_positions(loaded, current_time)
             IN  run.journal = trades /\ run.closed_count = closed_count

\* The settler has returned from a run that closed a trade and left one open.
SettlementWitness ==
    /\ pc = "fetch"
    /\ asset_i = 1
    /\ closed_count > 0
    /\ \E i \in 1..NTrades : IsOpen(TradeList[i])

\* ------------------------------------------------------------------- C6
\* C6: with the breaker not tripped, an up-price below 0.40 is a BUY signal,
\* one above 0.60 a SELL signal, and one from 0.40 to 0.60, the two bounds
\* included, is HOLD and records nothing; the trade the executor appends
\* carries BUY exactly for an up-price below 0.40 and SELL exactly above 0.60.
ThresholdStep ==
    /\ (pc = "evaluate" /\ trades.consecutive_losses < 3)
          => LET p == market_data.up_price
             IN  /\ p < 40 => (pc' = "execute" /\ trade_signal' /\ action' = "BUY")
                 /\ p > 60 => (pc' = "execute" /\ trade_signal' /\ action' = "SELL")
                 /\ (p >= 40 /\ p <= 60)
                       => (pc' = "sleep" /\ ~trade_signal' /\ reason'[1] = "HOLD:")
    /\ pc = "sleep" => (trades' = trades /\ file' = file)
    /\ pc = "execute"
          => /\ Len(trades'.trades) = NTrades + 1
             /\ LET new == trades'.trades[NTrades + 1]
                IN  /\ new.up_price = market_data.up_price
                    /\ new.action \in {"BUY", "SELL"}
                    /\ new.action = "BUY" <=> market_data.up_price < 40
                    /\ new.action = "SELL" <=> market_data.up_price > 60

SignalThresholds == [][ThresholdStep]_vars

\* HOLD at the boundary 0.40, in a journal that holds a BUY and a SELL.
ThresholdWitness ==
    /\ pc = "sleep"
    /\ market_data.up_price = 40
    /\ reason[1] = "HOLD:"
    /\ \E i, k \in 1..NTrades :
          TradeList[i].action = "BUY" /\ TradeList[k].action = "SELL"

\* ------------------------------------------------------------------- C7
\* C7: a settler iteration that closes a trade of size s and entry price e
\* closes a BUY with pnl s x (1 - e) and resets the loss counter, and a SELL
\* with pnl -s x e and increments it; no closed trade has any other pnl.
PnlOf(tr) == IF tr.action = "BUY" THEN tr.size * (100 - tr.price)
                                  ELSE 0 - tr.size * tr.price

PnlStep ==
    /\ ClosingStep =>
          /\ trades'.trades[idx].pnl = PnlOf(TradeList[idx])
          /\ TradeList[idx].action = "BUY" => trades'.consecutive_losses = 0
          /\ TradeList[idx].action = "SELL"
                => trades'.consecutive_losses = trades.consecutive_losses + 1
    /\ \A i \in 1..Len(trades'.trades) :
          IsClosed(trades'.trades[i]) => trades'.trades[i].pnl = PnlOf(trades'.trades[i])

FetchErrorStep ==
    fetch_errors > 0
        => /\ trades' = trades
           /\ file' = file
           /\ pc' # "aborted"

FetchErrorRecordsNoTrade == [][FetchErrorStep]_vars

\* C8, amended: a failed attempt is never raised; it is "no market" for its
\* window only, and the fetcher goes on to the next window, so a snapshot that
\* follows a failure is of a later window than the current one.  When no
\* window gives a market the asset's step records nothing, leaves the journal
\* in memory and on disk as it was, and the cycle goes on to the next asset,
\* or to its summary after the last.  The fetch itself never touches the
\* journal.
FetchContainedStep ==
    /\ pc # "aborted" /\ pc' # "aborted"
    /\ pc = "fetch"
          => /\ pc' \in {"no_market", "evaluate"}
             /\ pc' = "no_market" <=> market_data' = None
             /\ trades' = trades
             /\ file' = file
    /\ (pc = "evaluate" /\ fetch_errors > 0)
          => market_data.timestamp > (now \div 900) * 900
    /\ pc = "no_market"
          => /\ market_data = None
             /\ trades' = trades
             /\ file' = file
             /\ IF asset_i < Len(Assets)
                THEN pc' = "fetch" /\ asset_i' = asset_i + 1
                ELSE pc' = "summary"

FetchErrorsContained == [][FetchContainedStep]_vars

\* Both windows of the first asset failed; the second asset is still to come.
FetchErrorWitness ==
    /\ pc = "no_market"
    /\ asset_i = 1
    /\ fetch_errors = 2
    /\ market_data = None

\* ------------------------------------------------------------------- C9
\* C9 as stated: in a cycle the journal file is read exactly once and written
\* at most twice.
ReadOnceWriteAtMostTwice ==
    /\ pc # "idle" => reads = 1
    /\ writes <= 2

\* C9, amended: in a cycle the journal is loaded once, which reads the file
\* once when it exists, and the file is written at most once for the
\* settlement batch and once for each execution, at most 1 + the number of
\* configured assets times (3): the writes are one if the settler closed
\* anything, plus the trades appended in the cycle.
JournalIoPerCycle ==
    /\ reads <= 1
    /\ (pc # "idle" /\ loaded # EmptyJournal) => reads = 1
    /\ writes <= 1 + Len(Assets)
    /\ SettlerDone
          => writes = (IF closed_count > 0 THEN 1 ELSE 0)
                      + (NTrades - Len(loaded.trades))

\* A settlement batch and an execution for each of the two assets.
ThreeWritesWitness ==
    /\ pc = "summary"
    /\ reads = 1
    /\ writes = 3
    /\ closed_count > 0

\* ------------------------------------------------------------------ C10
\* C10: once the settler has returned from its run at time t, every trade
\* that was open at the load with end time < t is closed, every one that was
\* open with end time >= t is as it was, and the trades appended in this cycle
\* are open.
SettlerClosesExactlyElapsed ==
    SettlerDone
        => /\ \A i \in 1..Len(loaded.trades) :
                 LET was == loaded.trades[i]
                 IN  /\ (IsOpen(was) /\ EndTime(was) < current_time)
                           => IsClosed(TradeList[i])
                     /\ (IsOpen(was) /\ EndTime(was) >= current_time)
                           => TradeList[i] = was
           /\ \A i \in (Len(loaded.trades) + 1)..NTrades : IsOpen(TradeList[i])

\* The run closed one trade and left open one whose market ends exactly at t.
ElapsedWitness ==
    /\ pc = "fetch"
    /\ \E i, k \in 1..Len(loaded.trades) :
          /\ IsOpen(loaded.trades[i]) /\ IsClosed(TradeList[i])
          /\ IsOpen(loaded.trades[k]) /\ EndTime(loaded.trades[k]) = current_time
          /\ IsOpen(TradeList[k])

====
